---- MODULE Spec2Model ----
(***************************************************************************)
(* Model of the mass-spring-damper physics engine: the RK4 integrator      *)
(* (src/src/physics/integrators.js), the forcing catalog and the           *)
(* MassSpringSystem class (src/src/physics/forcingFunctions.js).           *)
(*                                                                         *)
(* JavaScript numbers are modelled as exact rationals <<n, d>> (d > 0, in  *)
(* lowest terms) extended with the three non-finite values of IEEE-754:    *)
(* NaN = <<0,0>>, +Infinity = <<1,0>>, -Infinity = <<-1,0>>.  Rounding of  *)
(* finite results is outside the model; the propagation of NaN/Infinity    *)
(* and the comparison rules for NaN follow the language.  Two values are   *)
(* approximate: Math.sqrt of a number that is not the square of a rational *)
(* (cut to three decimals) and Math.PI (355/113).                          *)
(*                                                                         *)
(* The long runs of the validation tests, thousands of steps of size 0.01, *)
(* leave the range of exact fractions at once.  They are computed with     *)
(* rounding instead: every product and quotient of a step is rounded to    *)
(* the nearest multiple of 1 / DecimalScale, as floating point rounds at a *)
(* finer grain.                                                            *)
(***************************************************************************)
EXTENDS Integers, Sequences, FiniteSets, TLC

(***************************************************************************)
(* Numbers                                                                 *)
(***************************************************************************)
NaN == <<0, 0>>
PosInf == <<1, 0>>
NegInf == <<-1, 0>>
\* the value `undefined` (an omitted field or argument)
Undefined == <<"undefined">>

AbsInt(i) == IF i < 0 THEN -i ELSE i
SignInt(i) == IF i < 0 THEN -1 ELSE IF i > 0 THEN 1 ELSE 0

RECURSIVE GCD(_, _)
GCD(x, y) == IF y = 0 THEN x ELSE GCD(y, x % y)

\* the number n/d; d = 0 gives the non-finite value of the sign of n
Norm(n, d) ==
  IF d = 0 THEN <<SignInt(n), 0>>
  ELSE LET g == GCD(AbsInt(n), AbsInt(d))
           s == IF d < 0 THEN -1 ELSE 1
       IN  <<(s * n) \div g, (s * d) \div g>>

IntNum(i) == <<i, 1>>
Zero == <<0, 1>>
One == <<1, 1>>
Half == <<1, 2>>

IsNaN(x) == x = NaN
IsFinite(x) == x[2] > 0

Neg(x) == <<-x[1], x[2]>>

\* x + y
Add(x, y) ==
  IF x[2] = 0 /\ y[2] = 0 THEN (IF x = y THEN x ELSE NaN)
  ELSE IF x[2] = 0 THEN x
  ELSE IF y[2] = 0 THEN y
  ELSE LET g == GCD(x[2], y[2])
       IN  Norm(x[1] * (y[2] \div g) + y[1] * (x[2] \div g), x[2] * (y[2] \div g))

Sub(x, y) == Add(x, Neg(y))

\* x * y
Mul(x, y) == Norm(x[1] * y[1], x[2] * y[2])

\* x / y (no signed zero: a finite non-zero value over 0 has the sign of x)
Div(x, y) ==
  IF x[2] = 0 /\ y[2] # 0
    THEN <<x[1] * (IF y[1] < 0 THEN -1 ELSE 1), 0>>
    ELSE Norm(x[1] * y[2], x[2] * y[1])

\* x < y; false when either side is NaN
Lt(x, y) ==
  /\ ~IsNaN(x)
  /\ ~IsNaN(y)
  /\ IF x[2] = 0 /\ y[2] = 0 THEN x[1] < y[1]
     ELSE x[1] * y[2] < y[1] * x[2]

\* x <= y; false when either side is NaN
Le(x, y) == ~IsNaN(x) /\ ~IsNaN(y) /\ ~Lt(y, x)
Gt(x, y) == Lt(y, x)
Ge(x, y) == Le(y, x)

\* x % y: the remainder of the truncated division, with the sign of x
Rem(x, y) ==
  IF IsNaN(x) \/ IsNaN(y) \/ ~IsFinite(x) \/ y = Zero THEN NaN
  ELSE IF ~IsFinite(y) THEN x
  ELSE LET q == Div(x, y)
           tr == SignInt(q[1]) * (AbsInt(q[1]) \div q[2])
       IN  Sub(x, Mul(y, IntNum(tr)))

\* Math.abs(x)
Abs(x) == <<AbsInt(x[1]), x[2]>>

\* the largest r in lo..hi with r*r <= n
RECURSIVE ISqrtSearch(_, _, _)
ISqrtSearch(n, lo, hi) ==
  IF lo >= hi THEN lo
  ELSE LET mid == (lo + hi + 1) \div 2
       IN  IF mid * mid <= n THEN ISqrtSearch(n, mid, hi) ELSE ISqrtSearch(n, lo, mid - 1)

ISqrt(n) == ISqrtSearch(n, 0, IF n < 46340 THEN n ELSE 46340)

\* the digits Math.sqrt keeps of a root that is not rational: three decimals
SqrtScale == 1000

\* Math.sqrt(x): NaN below zero; the exact root of the square of a rational;
\* otherwise the root cut to a multiple of 1/SqrtScale
Sqrt(x) ==
  IF IsNaN(x) \/ Lt(x, Zero) THEN NaN
  ELSE IF ~IsFinite(x) THEN PosInf
  ELSE LET rn == ISqrt(x[1])
           rd == ISqrt(x[2])
       IN  IF rn * rn = x[1] /\ rd * rd = x[2] THEN Norm(rn, rd)
           ELSE Norm(ISqrt(((x[1] * SqrtScale) \div x[2]) * SqrtScale), SqrtScale)

\* Math.PI, as the fraction 355/113
Pi == <<355, 113>>

\* the tolerance of the regime test is 1e-10 = 1 / (ToleranceRoot * ToleranceRoot)
ToleranceRoot == 100000

\* x < 1e-10 for x >= 0 or NaN: n/d < 1/ToleranceRoot^2, computed without
\* forming ToleranceRoot^2
LtTolerance(x) ==
  /\ IsFinite(x)
  /\ x[1] <= 21474
  /\ x[1] * ToleranceRoot <= (x[2] - 1) \div ToleranceRoot

(***************************************************************************)
(* Rounded arithmetic: numbers that are multiples of 1 / DecimalScale,     *)
(* handled by their numerators over DecimalScale.                          *)
(***************************************************************************)
DecimalScale == 10000000

\* i / d (d > 0) rounded to the nearest integer, halves away from zero
RoundDiv(i, d) == SignInt(i) * ((AbsInt(i) + d \div 2) \div d)

\* the numerator of x over DecimalScale, for x a multiple of 1 / DecimalScale
ToScaled(x) == x[1] * (DecimalScale \div x[2])

FromScaled(i) == Norm(i, DecimalScale)

\* i * j / DecimalScale rounded to nearest, by limbs of four digits so that
\* no intermediate product leaves the 32-bit integers
ScaledMul(i, j) ==
  LET limb == 10000
      rest == DecimalScale \div limb
      ih == AbsInt(i) \div limb
      il == AbsInt(i) % limb
      jh == AbsInt(j) \div limb
      jl == AbsInt(j) % limb
      cross == ih * jl + il * jh
  IN  SignInt(i) * SignInt(j)
        * (ih * jh * (limb \div rest) + cross \div rest
             + ((cross % rest) * limb + il * jl + DecimalScale \div 2) \div DecimalScale)

\* x * y, rounded
RoundedMul(x, y) == FromScaled(ScaledMul(ToScaled(x), ToScaled(y)))

\* x / y, rounded, for a divisor that is an exact fraction of small terms
RoundedDiv(x, y) == FromScaled(RoundDiv(ToScaled(x) * y[2] * SignInt(y[1]), AbsInt(y[1])))

\* the Taylor series of the cosine from its term j - 1 on, at a point whose
\* square is x2 (scaled), cut after the term in x^16
RECURSIVE CosSeries(_, _, _)
CosSeries(x2, term, j) ==
  IF j > 9 THEN 0
  ELSE term + CosSeries(x2, RoundDiv(-ScaledMul(term, x2), (2 * j - 1) * (2 * j)), j + 1)

\* Math.cos(x) of a finite argument in radians, rounded: the argument is
\* reduced to [0, PI/2] by the period and the symmetries of the cosine
Cos(x) ==
  LET twoPi == 62831853
      pi == 31415927
      halfPi == 15707963
      r == AbsInt(ToScaled(x)) % twoPi
      a == IF r > pi THEN twoPi - r ELSE r
  IN  FromScaled(IF a > halfPi
                   THEN -CosSeries(ScaledMul(pi - a, pi - a), DecimalScale, 1)
                   ELSE CosSeries(ScaledMul(a, a), DecimalScale, 1))

(***************************************************************************)
(* Math.sin / Math.cos.  The argument 2*PI*frequency*t is carried in turns *)
(* (frequency*t).  The sine of a finite argument is Bhaskara's rational    *)
(* formula, which is exact at every multiple of a quarter turn and of a    *)
(* twelfth of a turn; the sine of NaN or of an infinity is NaN.            *)
(***************************************************************************)
Frac(x) == <<x[1] % x[2], x[2]>>

\* sin(PI*u) for 0 <= u <= 1
SinHalfTurn(u) ==
  LET p == Mul(u, Sub(One, u))
  IN  Div(Mul(IntNum(16), p), Sub(IntNum(5), Mul(IntNum(4), p)))

SinTurns(x) ==
  IF ~IsFinite(x) THEN NaN
  ELSE LET r == Frac(x)
       IN  IF Lt(r, Half) THEN SinHalfTurn(Mul(IntNum(2), r))
           ELSE Neg(SinHalfTurn(Sub(Mul(IntNum(2), r), One)))

CosTurns(x) == IF ~IsFinite(x) THEN NaN ELSE SinTurns(Add(x, <<1, 4>>))

(***************************************************************************)
(* Forcing catalog                                                         *)
(***************************************************************************)
\* a parameter record with no fields: {}
EmptyParams == [key \in {} |-> Zero]

\* `params.key || dflt`: the default also replaces a field that is 0 or NaN
FieldOrDefault(params, key, dflt) ==
  IF key \in DOMAIN params /\ params[key] \notin {Undefined, Zero, NaN} THEN params[key] ELSE dflt

\* `{ key = dflt }` in a parameter list: the default replaces a field that is
\* missing or undefined
Field(params, key, dflt) ==
  IF key \in DOMAIN params /\ params[key] # Undefined THEN params[key] ELSE dflt

\* a merge in which the first record's values win
SpreadBaseWins(base, over) ==
  [key \in (DOMAIN base) \cup (DOMAIN over) |->
     IF key \in DOMAIN base THEN base[key] ELSE over[key]]

\* { ...base, ...over }
Spread(base, over) ==
  [key \in (DOMAIN base) \cup (DOMAIN over) |->
     IF key \in DOMAIN over THEN over[key] ELSE base[key]]

none(t) == Zero

constant(t, params) == Field(params, "force", One)

sine(t, params) ==
  LET amplitude == Field(params, "amplitude", One)
      frequency == Field(params, "frequency", One)
  IN  Mul(amplitude, SinTurns(Mul(frequency, t)))

cosine(t, params) ==
  LET amplitude == Field(params, "amplitude", One)
      frequency == Field(params, "frequency", One)
  IN  Mul(amplitude, CosTurns(Mul(frequency, t)))

step(t, params) ==
  LET amplitude == Field(params, "amplitude", One)
      stepTime == Field(params, "stepTime", Zero)
  IN  IF Ge(t, stepTime) THEN amplitude ELSE Zero

square(t, params) ==
  LET amplitude == Field(params, "amplitude", One)
      frequency == Field(params, "frequency", One)
      period == Div(One, frequency)
      phase == Div(Rem(t, period), period)
  IN  Mul(amplitude, IF Lt(phase, Half) THEN One ELSE Neg(One))

impulse(t, params) ==
  LET amplitude == Field(params, "amplitude", One)
      impulseTime == Field(params, "impulseTime", Zero)
      width == Field(params, "width", <<1, 100>>)
      inImpulse == Ge(t, impulseTime) /\ Lt(t, Add(impulseTime, width))
  IN  IF inImpulse THEN Div(amplitude, width) ELSE Zero

\* the own keys of `presets` (and of `defaultParams`)
CatalogKeys == {"none", "constant", "sine", "cosine", "step", "square", "impulse"}

\* keys every object literal inherits from Object.prototype
InheritedKeys == {"toString", "constructor", "__proto__"}

\* presets[name]: a catalog function, an inherited member, or undefined.
\* Functions are named by strings; "undefined" is the missing property.
PresetsGet(name) ==
  IF name \in CatalogKeys THEN name
  ELSE IF name = "toString" THEN "Object.prototype.toString"
  ELSE IF name = "constructor" THEN "Object"
  ELSE IF name = "__proto__" THEN "Object.prototype"
  ELSE "undefined"

\* the own enumerable fields of defaultParams[name], as a spread sees them
\* (an inherited member has none)
defaultParams(name) ==
  CASE name = "constant" -> [force |-> One]
    [] name \in {"sine", "cosine", "square"} -> [amplitude |-> One, frequency |-> One]
    [] name = "step" -> [amplitude |-> One, stepTime |-> One]
    [] name = "impulse" -> [amplitude |-> One, impulseTime |-> One, width |-> <<1, 100>>]
    [] OTHER -> EmptyParams

\* !presets[name]
PresetMissing(name) == PresetsGet(name) = "undefined"

\* getForcingFunction(name): the function, or the message thrown
getForcingFunction(name) ==
  IF PresetMissing(name)
    THEN [threw |-> "Unknown forcing function: " \o name, value |-> "undefined"]
    ELSE [threw |-> "", value |-> PresetsGet(name)]

\* whether calling the value as a function succeeds
IsCallable(fn) == fn \notin {"undefined", "Object.prototype"}

\* the value of fn(t, params) as `... + force` uses it: a number; or NaN where the
\* call returns a string ('[object Object]') and the sum becomes a string
CallForcing(fn, t, params) ==
  CASE fn = "none" -> none(t)
    [] fn = "constant" -> constant(t, params)
    [] fn = "sine" -> sine(t, params)
    [] fn = "cosine" -> cosine(t, params)
    [] fn = "step" -> step(t, params)
    [] fn = "square" -> square(t, params)
    [] fn = "impulse" -> impulse(t, params)
    [] fn = "Object" -> t
    [] OTHER -> NaN

(***************************************************************************)
(* Integrators                                                             *)
(***************************************************************************)
\* derivatives of a spring whose rest position is y = 1
computeDerivativesRestAtOne(self, s) ==
  LET force == CallForcing(self.forcingFn, s.t, self.forcingParams)
      dydt == s.v
      dvdt == Div(Add(Sub(Mul(Neg(self.b), s.v), Mul(self.k, Sub(s.y, One))), force), self.m)
  IN  [dydt |-> dydt, dvdt |-> dvdt]

\* self: the instance the derivative closure captured (m, b, k, forcingFn,
\* forcingParams); s: the state {y, v, t} it is evaluated at
computeDerivatives(self, s) ==
  LET force == CallForcing(self.forcingFn, s.t, self.forcingParams)
      dydt == s.v
      dvdt == Div(Add(Sub(Mul(Neg(self.b), s.v), Mul(self.k, s.y)), force), self.m)
  IN  [dydt |-> dydt, dvdt |-> dvdt]

\* a midpoint slope taken a whole dt ahead
rk4MidpointAtEnd(s, kk, dt) ==
  [y |-> Add(s.y, Mul(kk.dydt, dt)),
   v |-> Add(s.v, Mul(kk.dvdt, dt)),
   t |-> Add(s.t, dt)]

\* the state a midpoint slope is taken at: y + 0.5*k.dydt*dt, v + 0.5*k.dvdt*dt, t + 0.5*dt
rk4Midpoint(s, kk, dt) ==
  [y |-> Add(s.y, Mul(Mul(Half, kk.dydt), dt)),
   v |-> Add(s.v, Mul(Mul(Half, kk.dvdt), dt)),
   t |-> Add(s.t, Mul(Half, dt))]

\* an end slope taken at the midpoint of the interval
rk4EndpointAtMidpoint(s, kk, dt) ==
  [y |-> Add(s.y, Mul(Mul(Half, kk.dydt), dt)),
   v |-> Add(s.v, Mul(Mul(Half, kk.dvdt), dt)),
   t |-> Add(s.t, Mul(Half, dt))]

\* the state the end slope is taken at: y + k.dydt*dt, v + k.dvdt*dt, t + dt
rk4Endpoint(s, kk, dt) ==
  [y |-> Add(s.y, Mul(kk.dydt, dt)),
   v |-> Add(s.v, Mul(kk.dvdt, dt)),
   t |-> Add(s.t, dt)]

\* an average that gives the two midpoint slopes the weight of the others
rk4AverageUnweighted(a1, a2, a3, a4) ==
  Div(Add(Add(Add(a1, a2), a3), a4), IntNum(6))

\* (a1 + 2*a2 + 2*a3 + a4) / 6
rk4Average(a1, a2, a3, a4) ==
  Div(Add(Add(Add(a1, Mul(IntNum(2), a2)), Mul(IntNum(2), a3)), a4), IntNum(6))

\* a returned state whose time runs against dt
rk4AdvanceBackward(s, dydt, dvdt, dt) ==
  [y |-> Add(s.y, Mul(dydt, dt)),
   v |-> Add(s.v, Mul(dvdt, dt)),
   t |-> Sub(s.t, dt)]

\* the returned state: y + dydt*dt, v + dvdt*dt, t + dt
rk4Advance(s, dydt, dvdt, dt) ==
  [y |-> Add(s.y, Mul(dydt, dt)),
   v |-> Add(s.v, Mul(dvdt, dt)),
   t |-> Add(s.t, dt)]

rk4Step(s, self, dt) ==
  LET k1 == computeDerivatives(self, [y |-> s.y, v |-> s.v, t |-> s.t])
      k2 == computeDerivatives(self, rk4Midpoint(s, k1, dt))
      k3 == computeDerivatives(self, rk4Midpoint(s, k2, dt))
      k4 == computeDerivatives(self, rk4Endpoint(s, k3, dt))
      dydt == rk4Average(k1.dydt, k2.dydt, k3.dydt, k4.dydt)
      dvdt == rk4Average(k1.dvdt, k2.dvdt, k3.dvdt, k4.dvdt)
  IN  rk4Advance(s, dydt, dvdt, dt)

(***************************************************************************)
(* rk4Step and the derivative closure with every product and quotient      *)
(* rounded.                                                                *)
(***************************************************************************)
computeDerivativesRounded(self, s) ==
  LET force == CallForcing(self.forcingFn, s.t, self.forcingParams)
      dydt == s.v
      dvdt == RoundedDiv(Add(Sub(RoundedMul(Neg(self.b), s.v), RoundedMul(self.k, s.y)), force),
                         self.m)
  IN  [dydt |-> dydt, dvdt |-> dvdt]

\* a midpoint slope taken a whole dt ahead
rk4MidpointRoundedAtEnd(s, kk, dt) ==
  [y |-> Add(s.y, RoundedMul(kk.dydt, dt)),
   v |-> Add(s.v, RoundedMul(kk.dvdt, dt)),
   t |-> Add(s.t, dt)]

rk4MidpointRounded(s, kk, dt) ==
  [y |-> Add(s.y, RoundedMul(RoundedMul(Half, kk.dydt), dt)),
   v |-> Add(s.v, RoundedMul(RoundedMul(Half, kk.dvdt), dt)),
   t |-> Add(s.t, RoundedMul(Half, dt))]

rk4EndpointRounded(s, kk, dt) ==
  [y |-> Add(s.y, RoundedMul(kk.dydt, dt)),
   v |-> Add(s.v, RoundedMul(kk.dvdt, dt)),
   t |-> Add(s.t, dt)]

rk4AverageRounded(a1, a2, a3, a4) ==
  RoundedDiv(Add(Add(Add(a1, RoundedMul(IntNum(2), a2)), RoundedMul(IntNum(2), a3)), a4),
             IntNum(6))

rk4AdvanceRounded(s, dydt, dvdt, dt) ==
  [y |-> Add(s.y, RoundedMul(dydt, dt)),
   v |-> Add(s.v, RoundedMul(dvdt, dt)),
   t |-> Add(s.t, dt)]

\* a step along the first slope alone
rk4StepRoundedFirstSlope(s, self, dt) ==
  LET k1 == computeDerivativesRounded(self, [y |-> s.y, v |-> s.v, t |-> s.t])
  IN  rk4AdvanceRounded(s, k1.dydt, k1.dvdt, dt)

rk4StepRounded(s, self, dt) ==
  LET k1 == computeDerivativesRounded(self, [y |-> s.y, v |-> s.v, t |-> s.t])
      k2 == computeDerivativesRounded(self, rk4MidpointRounded(s, k1, dt))
      k3 == computeDerivativesRounded(self, rk4MidpointRounded(s, k2, dt))
      k4 == computeDerivativesRounded(self, rk4EndpointRounded(s, k3, dt))
      dydt == rk4AverageRounded(k1.dydt, k2.dydt, k3.dydt, k4.dydt)
      dvdt == rk4AverageRounded(k1.dvdt, k2.dvdt, k3.dvdt, k4.dvdt)
  IN  rk4AdvanceRounded(s, dydt, dvdt, dt)

eulerStep(s, self, dt) ==
  LET derivatives == computeDerivatives(self, [y |-> s.y, v |-> s.v, t |-> s.t])
  IN  [y |-> Add(s.y, Mul(derivatives.dydt, dt)),
       v |-> Add(s.v, Mul(derivatives.dvdt, dt)),
       t |-> Add(s.t, dt)]

(***************************************************************************)
(* MassSpringSystem: one instance and its caller                           *)
(***************************************************************************)
VARIABLES
  alive,          \* TRUE once `new MassSpringSystem(config)` has returned
  m, b, k,        \* this.m, this.b, this.k
  y0, v0,         \* this.y0, this.v0
  state,          \* this.state = {y, v, t}
  forcingName,    \* this.forcingName
  forcingFn,      \* this.forcingFn
  forcingParams,  \* this.forcingParams
  lastOp,         \* the last call: its name and the message it threw ("" if none)
  ret,            \* the value the last call returned (Undefined: none)
  dts,            \* the dt of every step since construction or the last reset
  calls,          \* the number of calls made on the instance
  held,           \* the objects of the instance that the value returned to the
                  \* caller, or the argument it passed, is the same object as:
                  \* "state" (this.state), "forcingParams" (this.forcingParams),
                  \* "defaultParams" (defaultParams[this.forcingName])
  defaults,       \* the module's `defaultParams` object, which every instance reads
  other,          \* a second instance and its caller, as a Snapshot
  replay,         \* the call made on one instance that the other is to repeat
  rk,             \* the rk4Step call in progress: its arguments, its position,
                  \* its locals k1..k4, the arguments it has passed to
                  \* derivativeFn so far, and the value it returned
  behind          \* history: since the forcing was selected or the instance was
                  \* reset, the impulse preset has been the selection at a time
                  \* t >= impulseTime + width

vars == <<alive, m, b, k, y0, v0, state, forcingName, forcingFn, forcingParams,
          lastOp, ret, dts, calls, held, defaults, other, replay, rk, behind>>

instanceVars == <<m, b, k, y0, v0, state, forcingName, forcingFn, forcingParams>>

\* the instance in focus and what its caller has, as one value
Snapshot ==
  [alive |-> alive, m |-> m, b |-> b, k |-> k, y0 |-> y0, v0 |-> v0, state |-> state,
   forcingName |-> forcingName, forcingFn |-> forcingFn, forcingParams |-> forcingParams,
   lastOp |-> lastOp, ret |-> ret, dts |-> dts, calls |-> calls, held |-> held]

\* what the single-instance programs leave alone
scenarioVars == <<replay, rk, behind>>

\* no rk4Step call has been made
NoRk4 == [pc |-> "idle"]

\* no call waiting to be repeated
NoCall == [op |-> "", args |-> <<>>, switched |-> FALSE]

\* bounds of the explored runs
MaxSteps == 2
MaxCalls == 3

\* values a caller passes
Two == <<2, 1>>
\* setParameters arguments <<m, b, k>>: nothing; one valid field; one invalid
\* field; batches with the invalid field first, second, third or absent; the
\* damping that is critical for m = k = 1
ParameterUpdates ==
  { <<Undefined, Undefined, Undefined>>,
    <<Half, Undefined, Undefined>>, <<Undefined, One, Undefined>>,
    <<Undefined, Undefined, Zero>>, <<NaN, Undefined, Undefined>>,
    <<Zero, Undefined, Undefined>>, <<Neg(One), Undefined, Undefined>>,
    <<Undefined, Neg(One), Undefined>>, <<Undefined, Undefined, Neg(One)>>,
    <<Zero, One, Zero>>, <<Half, Neg(One), Undefined>>, <<Undefined, One, Neg(One)>>,
    <<Half, One, Neg(One)>>, <<Half, One, Zero>>, <<Undefined, Two, Undefined>> }
CtorMassInputs == {Undefined, Half, Zero, Neg(One)}
CtorDampingInputs == {Zero, Neg(One)}
CtorSpringInputs == {Undefined, Neg(One)}
\* initial conditions <<y0, v0>>: both omitted, or both given
InitialInputs == {<<Undefined, Undefined>>, <<Zero, One>>}
DtInputs == {Two, Zero, Neg(Two), NaN, PosInf}
NameInputs == CatalogKeys \cup InheritedKeys \cup {"unknown"}
\* setForcing override records: none; values for two fields; a field that is
\* present with the value undefined
ParamsInputs == {EmptyParams, [amplitude |-> Two, force |-> Two], [stepTime |-> Undefined]}
\* setForcing arguments <<name, params>>: every name without overrides, and a
\* few names with each override record
ForcingInputs ==
  {sel \in NameInputs \X ParamsInputs :
     sel[2] = EmptyParams \/ sel[1] \in {"constant", "sine", "step", "toString"}}

MassMessage == "Mass must be positive"
DampingMessage == "Damping coefficient must be non-negative"
SpringMessage == "Spring constant must be non-negative"
UnknownForcingMessage(name) == "Unknown forcing function: " \o name
NotAFunctionMessage == "TypeError: this.forcingFn is not a function"

\* a mass test that lets zero through
MassRejectedStrict(x) == Lt(x, Zero)

\* the tests `m <= 0`, `b < 0`, `k < 0`
MassRejected(x) == Le(x, Zero)
DampingRejected(x) == Lt(x, Zero)
SpringRejected(x) == Lt(x, Zero)

\* `{ field = dflt }` of the constructor's parameter
Default(x, dflt) == IF x = Undefined THEN dflt ELSE x

Op(name, threw) == [op |-> name, threw |-> threw]

\* an initial state with position and velocity exchanged
InitialStateSwapped(ay0, av0) == [y |-> av0, v |-> ay0, t |-> Zero]

\* the state object built from the initial conditions: {y: y0, v: v0, t: 0.0}
InitialState(ay0, av0) == [y |-> ay0, v |-> av0, t |-> Zero]

\* a reset state built from the constructor's defaults instead of the stored values
ResetStateDefaults(ay0, av0) == [y |-> One, v |-> Zero, t |-> Zero]

\* the state object reset() builds: {y: this.y0, v: this.v0, t: 0.0}
ResetState(ay0, av0) == [y |-> ay0, v |-> av0, t |-> Zero]

\* the Snapshot of an instance that is not constructed yet
NoInstance ==
  [alive |-> FALSE, m |-> Undefined, b |-> Undefined, k |-> Undefined,
   y0 |-> Undefined, v0 |-> Undefined,
   state |-> [y |-> Undefined, v |-> Undefined, t |-> Undefined],
   forcingName |-> "undefined", forcingFn |-> "undefined",
   forcingParams |-> EmptyParams, lastOp |-> Op("", ""), ret |-> Undefined,
   dts |-> <<>>, calls |-> 0, held |-> {}]

Init ==
  /\ alive = FALSE
  /\ m = Undefined /\ b = Undefined /\ k = Undefined
  /\ y0 = Undefined /\ v0 = Undefined
  /\ state = [y |-> Undefined, v |-> Undefined, t |-> Undefined]
  /\ forcingName = "undefined"
  /\ forcingFn = "undefined"
  /\ forcingParams = EmptyParams
  /\ lastOp = Op("", "")
  /\ ret = Undefined
  /\ dts = <<>>
  /\ calls = 0
  /\ held = {}
  /\ defaults = [name \in CatalogKeys |-> defaultParams(name)]
  /\ other = NoInstance
  /\ replay = NoCall
  /\ rk = NoRk4
  /\ behind = FALSE

\* new MassSpringSystem({m: cm, b: cb, k: ck, y0: cy0, v0: cv0})
Construct(cm, cb, ck, cy0, cv0) ==
  LET am == Default(cm, One)
      ab == Default(cb, <<1, 10>>)
      ak == Default(ck, One)
      ay0 == Default(cy0, One)
      av0 == Default(cv0, Zero)
      threw == IF MassRejected(am) THEN MassMessage
               ELSE IF DampingRejected(ab) THEN DampingMessage
               ELSE IF SpringRejected(ak) THEN SpringMessage
               ELSE ""
  IN  /\ ~alive
      /\ lastOp' = Op("constructor", threw)
      /\ ret' = Undefined
      /\ dts' = <<>>
      /\ calls' = 0
      /\ held' = {}
      /\ UNCHANGED <<defaults, other>>
      /\ IF threw # ""
           THEN UNCHANGED <<alive, instanceVars>>
           ELSE /\ alive' = TRUE
                /\ m' = am /\ b' = ab /\ k' = ak
                /\ y0' = ay0 /\ v0' = av0
                /\ state' = InitialState(ay0, av0)
                /\ forcingName' = "none"
                /\ forcingFn' = PresetsGet("none")
                /\ forcingParams' = EmptyParams

\* a call on the instance
Called ==
  /\ alive
  /\ calls < MaxCalls
  /\ calls' = calls + 1

\* the instance as the derivative closure sees it
This == [m |-> m, b |-> b, k |-> k, forcingFn |-> forcingFn, forcingParams |-> forcingParams]

\* a step whose size also depends on a source outside the instance
StepJitters(dt) ==
  /\ Called
  /\ Len(dts) < MaxSteps
  /\ \E jitter \in {Zero, One} :
       /\ state' = rk4Step(state, This, Add(dt, jitter))
       /\ ret' = [y |-> state'.y, v |-> state'.v, t |-> state'.t]
  /\ lastOp' = Op("step", "")
  /\ dts' = Append(dts, dt)
  /\ held' = {}
  /\ UNCHANGED <<alive, m, b, k, y0, v0, forcingName, forcingFn, forcingParams>>
  /\ UNCHANGED <<defaults, other>>

\* step(dt)
Step(dt) ==
  /\ Called
  /\ Len(dts) < MaxSteps
  /\ IF IsCallable(forcingFn)
       THEN /\ state' = rk4Step(state, This, dt)
            /\ ret' = [y |-> state'.y, v |-> state'.v, t |-> state'.t]
            /\ lastOp' = Op("step", "")
            /\ dts' = Append(dts, dt)
       ELSE /\ lastOp' = Op("step", NotAFunctionMessage)
            /\ ret' = Undefined
            /\ UNCHANGED <<state, dts>>
  /\ held' = {}
  /\ UNCHANGED <<alive, m, b, k, y0, v0, forcingName, forcingFn, forcingParams>>
  /\ UNCHANGED <<defaults, other>>

\* a setParameters that replaces all three parameters, an omitted one by the
\* constructor's default
SetParametersReplacesAll(pm, pb, pk) ==
  LET am == Default(pm, One)
      ab == Default(pb, <<1, 10>>)
      ak == Default(pk, One)
      threw == IF MassRejected(am) THEN MassMessage
               ELSE IF DampingRejected(ab) THEN DampingMessage
               ELSE IF SpringRejected(ak) THEN SpringMessage
               ELSE ""
  IN  /\ Called
      /\ m' = IF threw = "" THEN am ELSE m
      /\ b' = IF threw = "" THEN ab ELSE b
      /\ k' = IF threw = "" THEN ak ELSE k
      /\ lastOp' = Op("setParameters", threw)
      /\ ret' = Undefined
      /\ held' = {}
      /\ UNCHANGED <<alive, y0, v0, state, forcingName, forcingFn, forcingParams, dts>>
      /\ UNCHANGED <<defaults, other>>

\* a setParameters that restarts the simulation when it succeeds
SetParametersRestarts(pm, pb, pk) ==
  LET mThrows == pm # Undefined /\ MassRejected(pm)
      bThrows == ~mThrows /\ pb # Undefined /\ DampingRejected(pb)
      kThrows == ~mThrows /\ ~bThrows /\ pk # Undefined /\ SpringRejected(pk)
  IN  /\ Called
      /\ m' = IF pm # Undefined /\ ~mThrows THEN pm ELSE m
      /\ b' = IF pb # Undefined /\ ~mThrows /\ ~bThrows THEN pb ELSE b
      /\ k' = IF pk # Undefined /\ ~mThrows /\ ~bThrows /\ ~kThrows THEN pk ELSE k
      /\ lastOp' = Op("setParameters",
                      IF mThrows THEN MassMessage
                      ELSE IF bThrows THEN DampingMessage
                      ELSE IF kThrows THEN SpringMessage
                      ELSE "")
      /\ ret' = Undefined
      /\ state' = IF mThrows \/ bThrows \/ kThrows THEN state ELSE ResetState(y0, v0)
      /\ held' = {}
      /\ UNCHANGED <<alive, y0, v0, forcingName, forcingFn, forcingParams, dts>>
      /\ UNCHANGED <<defaults, other>>

\* setParameters({m: pm, b: pb, k: pk})
SetParameters(pm, pb, pk) ==
  LET mThrows == pm # Undefined /\ MassRejected(pm)
      bThrows == ~mThrows /\ pb # Undefined /\ DampingRejected(pb)
      kThrows == ~mThrows /\ ~bThrows /\ pk # Undefined /\ SpringRejected(pk)
  IN  /\ Called
      /\ m' = IF pm # Undefined /\ ~mThrows THEN pm ELSE m
      /\ b' = IF pb # Undefined /\ ~mThrows /\ ~bThrows THEN pb ELSE b
      /\ k' = IF pk # Undefined /\ ~mThrows /\ ~bThrows /\ ~kThrows THEN pk ELSE k
      /\ lastOp' = Op("setParameters",
                      IF mThrows THEN MassMessage
                      ELSE IF bThrows THEN DampingMessage
                      ELSE IF kThrows THEN SpringMessage
                      ELSE "")
      /\ ret' = Undefined
      /\ held' = {}
      /\ UNCHANGED <<alive, y0, v0, state, forcingName, forcingFn, forcingParams, dts>>
      /\ UNCHANGED <<defaults, other>>

\* defaultParams[name] as a spread sees it: the record of a catalog key, no
\* field for an inherited member
DefaultParamsGet(name) == IF name \in DOMAIN defaults THEN defaults[name] ELSE EmptyParams

\* a setForcing that stores the name before it looks the preset up
SetForcingStoresFirst(name, params) ==
  /\ Called
  /\ ret' = Undefined
  /\ forcingName' = name
  /\ IF PresetMissing(name)
       THEN /\ lastOp' = Op("setForcing", UnknownForcingMessage(name))
            /\ UNCHANGED <<forcingFn, forcingParams>>
       ELSE /\ lastOp' = Op("setForcing", "")
            /\ forcingFn' = PresetsGet(name)
            /\ forcingParams' = Spread(DefaultParamsGet(name), params)
  /\ held' = {}
  /\ UNCHANGED <<alive, m, b, k, y0, v0, state, dts>>
  /\ UNCHANGED <<defaults, other>>

\* a setForcing that merges the overrides into the module's default record
SetForcingSharesDefaults(name, params) ==
  /\ Called
  /\ ret' = Undefined
  /\ IF PresetMissing(name)
       THEN /\ lastOp' = Op("setForcing", UnknownForcingMessage(name))
            /\ UNCHANGED <<forcingName, forcingFn, forcingParams, defaults>>
       ELSE /\ lastOp' = Op("setForcing", "")
            /\ forcingName' = name
            /\ forcingFn' = PresetsGet(name)
            /\ forcingParams' = Spread(DefaultParamsGet(name), params)
            /\ defaults' = IF name \in DOMAIN defaults
                             THEN [defaults EXCEPT ![name] = Spread(@, params)]
                             ELSE defaults
  /\ held' = {}
  /\ UNCHANGED <<alive, m, b, k, y0, v0, state, dts>>
  /\ UNCHANGED other

\* a setForcing that restarts the clock of the simulation
SetForcingRestartsClock(name, params) ==
  /\ Called
  /\ ret' = Undefined
  /\ IF PresetMissing(name)
       THEN /\ lastOp' = Op("setForcing", UnknownForcingMessage(name))
            /\ UNCHANGED <<forcingName, forcingFn, forcingParams, state>>
       ELSE /\ lastOp' = Op("setForcing", "")
            /\ forcingName' = name
            /\ forcingFn' = PresetsGet(name)
            /\ forcingParams' = Spread(DefaultParamsGet(name), params)
            /\ state' = [state EXCEPT !.t = Zero]
  /\ held' = {}
  /\ UNCHANGED <<alive, m, b, k, y0, v0, dts>>
  /\ UNCHANGED <<defaults, other>>

\* setForcing(name, params)
SetForcing(name, params) ==
  /\ Called
  /\ ret' = Undefined
  /\ IF PresetMissing(name)
       THEN /\ lastOp' = Op("setForcing", UnknownForcingMessage(name))
            /\ UNCHANGED <<forcingName, forcingFn, forcingParams>>
       ELSE /\ lastOp' = Op("setForcing", "")
            /\ forcingName' = name
            /\ forcingFn' = PresetsGet(name)
            /\ forcingParams' = Spread(DefaultParamsGet(name), params)
  /\ held' = {}
  /\ UNCHANGED <<alive, m, b, k, y0, v0, state, dts>>
  /\ UNCHANGED <<defaults, other>>

getState == [y |-> state.y, v |-> state.v, t |-> state.t]
getParameters == [m |-> m, b |-> b, k |-> k]
getForcing == [name |-> forcingName, params |-> Spread(EmptyParams, forcingParams)]

\* the regime test without Math.abs: every negative discriminant is critical
RegimeNoAbs(discriminant) ==
  IF Lt(discriminant, Zero) \/ LtTolerance(Abs(discriminant)) THEN "critical"
  ELSE IF Gt(discriminant, Zero) THEN "overdamped"
  ELSE "underdamped"

\* the if / else if / else over the discriminant
Regime(discriminant) ==
  IF LtTolerance(Abs(discriminant)) THEN "critical"
  ELSE IF Gt(discriminant, Zero) THEN "overdamped"
  ELSE "underdamped"

\* omegaD: omega0 * sqrt(1 - zeta^2) when underdamped, else 0
DampedFrequency(regime, omega0, zeta) ==
  IF regime = "underdamped" THEN Mul(omega0, Sqrt(Sub(One, Mul(zeta, zeta)))) ELSE Zero

getSystemProperties ==
  LET omega0 == Sqrt(Div(k, m))
      f0 == Div(omega0, Mul(Two, Pi))
      zeta == Div(b, Mul(Two, Sqrt(Mul(m, k))))
      regime == Regime(Sub(Mul(b, b), Mul(Mul(IntNum(4), m), k)))
      omegaD == DampedFrequency(regime, omega0, zeta)
  IN  [omega0 |-> omega0,
       f0 |-> f0,
       T0 |-> Div(One, f0),
       zeta |-> zeta,
       regime |-> regime,
       omegaD |-> omegaD,
       fD |-> Div(omegaD, Mul(Two, Pi)),
       Q |-> Div(Sqrt(Mul(m, k)), b)]

\* an energy that leaves the potential term out
getEnergyKineticOnly == Mul(Mul(Mul(Half, m), state.v), state.v)

\* kineticEnergy + potentialEnergy of the state s of an instance, each product
\* taken left to right
\* getEnergy() with every product rounded
energyRounded(self, s) ==
  LET kineticEnergy == RoundedMul(RoundedMul(RoundedMul(Half, self.m), s.v), s.v)
      potentialEnergy == RoundedMul(RoundedMul(RoundedMul(Half, self.k), s.y), s.y)
  IN  Add(kineticEnergy, potentialEnergy)

energyOf(self, s) ==
  LET kineticEnergy == Mul(Mul(Mul(Half, self.m), s.v), s.v)
      potentialEnergy == Mul(Mul(Mul(Half, self.k), s.y), s.y)
  IN  Add(kineticEnergy, potentialEnergy)

getEnergy == energyOf(This, state)

GetState ==
  /\ Called
  /\ ret' = getState
  /\ lastOp' = Op("getState", "")
  /\ held' = {}
  /\ UNCHANGED <<alive, instanceVars, dts>>
  /\ UNCHANGED <<defaults, other>>

GetParameters ==
  /\ Called
  /\ ret' = getParameters
  /\ lastOp' = Op("getParameters", "")
  /\ held' = {}
  /\ UNCHANGED <<alive, instanceVars, dts>>
  /\ UNCHANGED <<defaults, other>>

\* a getForcing that returns this.forcingParams itself as the params record
GetForcingSharesParams ==
  /\ Called
  /\ ret' = [name |-> forcingName, params |-> forcingParams]
  /\ lastOp' = Op("getForcing", "")
  /\ held' = {"forcingParams"}
  /\ UNCHANGED <<alive, instanceVars, dts>>
  /\ UNCHANGED <<defaults, other>>

GetForcing ==
  /\ Called
  /\ ret' = getForcing
  /\ lastOp' = Op("getForcing", "")
  /\ held' = {}
  /\ UNCHANGED <<alive, instanceVars, dts>>
  /\ UNCHANGED <<defaults, other>>

GetSystemProperties ==
  /\ Called
  /\ ret' = getSystemProperties
  /\ lastOp' = Op("getSystemProperties", "")
  /\ held' = {}
  /\ UNCHANGED <<alive, instanceVars, dts>>
  /\ UNCHANGED <<defaults, other>>

GetEnergy ==
  /\ Called
  /\ ret' = getEnergy
  /\ lastOp' = Op("getEnergy", "")
  /\ held' = {}
  /\ UNCHANGED <<alive, instanceVars, dts>>
  /\ UNCHANGED <<defaults, other>>

\* a reset that also returns the forcing to its initial selection
ResetClearsForcing ==
  /\ Called
  /\ state' = ResetState(y0, v0)
  /\ lastOp' = Op("reset", "")
  /\ ret' = Undefined
  /\ dts' = <<>>
  /\ forcingName' = "none"
  /\ forcingFn' = PresetsGet("none")
  /\ forcingParams' = EmptyParams
  /\ held' = {}
  /\ UNCHANGED <<alive, m, b, k, y0, v0>>
  /\ UNCHANGED <<defaults, other>>

\* reset()
Reset ==
  /\ Called
  /\ state' = ResetState(y0, v0)
  /\ lastOp' = Op("reset", "")
  /\ ret' = Undefined
  /\ dts' = <<>>
  /\ held' = {}
  /\ UNCHANGED <<alive, m, b, k, y0, v0, forcingName, forcingFn, forcingParams>>
  /\ UNCHANGED <<defaults, other>>

\* what an assignment by the caller makes of an object: every field overwritten
\* and one added
Tamper(obj) == [key \in (DOMAIN obj) \cup {"tampered"} |-> One]

\* the caller writes to the value the last call returned to it (and to its nested
\* params record), or to the params object it passed to setForcing; an object of
\* the instance changes with it exactly if it is the same object
Mutate ==
  /\ alive
  /\ lastOp.threw = ""
  /\ lastOp.op \in {"step", "getState", "getParameters", "getForcing",
                    "getSystemProperties", "setForcing"}
  /\ lastOp' = Op("mutate", "")
  /\ ret' = IF lastOp.op = "setForcing" THEN ret
            ELSE IF lastOp.op = "getForcing"
              THEN [name |-> "tampered", params |-> Tamper(ret.params)]
            ELSE Tamper(ret)
  /\ state' = IF "state" \in held THEN Tamper(state) ELSE state
  /\ forcingParams' = IF "forcingParams" \in held THEN Tamper(forcingParams)
                      ELSE forcingParams
  /\ defaults' = IF "defaultParams" \in held /\ forcingName \in DOMAIN defaults
                   THEN [defaults EXCEPT ![forcingName] = Tamper(@)]
                   ELSE defaults
  /\ UNCHANGED <<alive, m, b, k, y0, v0, forcingName, forcingFn, dts, calls, held, other>>

\* one instance and its caller
Next ==
  \/ \E cm \in CtorMassInputs, cb \in CtorDampingInputs, ck \in CtorSpringInputs,
        ic \in InitialInputs : Construct(cm, cb, ck, ic[1], ic[2]) /\ UNCHANGED scenarioVars
  \/ \E dt \in DtInputs : Step(dt) /\ UNCHANGED scenarioVars
  \/ \E p \in ParameterUpdates : SetParameters(p[1], p[2], p[3]) /\ UNCHANGED scenarioVars
  \/ \E sel \in ForcingInputs : SetForcing(sel[1], sel[2]) /\ UNCHANGED scenarioVars
  \/ GetState /\ UNCHANGED scenarioVars
  \/ GetParameters /\ UNCHANGED scenarioVars
  \/ GetForcing /\ UNCHANGED scenarioVars
  \/ GetSystemProperties /\ UNCHANGED scenarioVars
  \/ Reset /\ UNCHANGED scenarioVars

Spec == Init /\ [][Next]_vars

(***************************************************************************)
(* Two instances of the class in one program.  The variables of one        *)
(* instance are in focus, the other instance is kept in `other`; a call is *)
(* made on the instance in focus, the focus moves to the other instance,   *)
(* and the same call with the same arguments is made there.                *)
(***************************************************************************)
Call(op, args) == [op |-> op, args |-> args, switched |-> FALSE]

\* the calls made on both instances
PairCalls ==
  { Call("constructor", <<Undefined, Zero, Undefined, Undefined, Undefined>>),
    Call("constructor", <<Half, Zero, Undefined, Zero, One>>),
    Call("constructor", <<Zero, Zero, Undefined, Undefined, Undefined>>),
    Call("step", <<Two>>),
    Call("step", <<NaN>>),
    Call("setParameters", <<Half, Undefined, Undefined>>),
    Call("setParameters", <<Half, Neg(One), Undefined>>),
    Call("setForcing", <<"sine", [amplitude |-> Two, force |-> Two]>>),
    Call("setForcing", <<"sine", EmptyParams>>),
    Call("setForcing", <<"step", [stepTime |-> Undefined]>>),
    Call("setForcing", <<"__proto__", EmptyParams>>),
    Call("setForcing", <<"unknown", EmptyParams>>),
    Call("getState", <<>>),
    Call("getParameters", <<>>),
    Call("getForcing", <<>>),
    Call("getSystemProperties", <<>>),
    Call("reset", <<>>),
    Call("mutate", <<>>) }

\* the call c made on the instance in focus
Make(c) ==
  \/ c.op = "constructor" /\ Construct(c.args[1], c.args[2], c.args[3], c.args[4], c.args[5])
  \/ c.op = "step" /\ Step(c.args[1])
  \/ c.op = "setParameters" /\ SetParameters(c.args[1], c.args[2], c.args[3])
  \/ c.op = "setForcing" /\ SetForcing(c.args[1], c.args[2])
  \/ c.op = "getState" /\ GetState
  \/ c.op = "getParameters" /\ GetParameters
  \/ c.op = "getForcing" /\ GetForcing
  \/ c.op = "getSystemProperties" /\ GetSystemProperties
  \/ c.op = "reset" /\ Reset
  \/ c.op = "mutate" /\ Mutate

\* a call on one instance
PairLead ==
  /\ replay = NoCall
  /\ \E c \in PairCalls : Make(c) /\ replay' = c
  /\ UNCHANGED <<rk, behind>>

\* the focus moves to the other instance
PairSwitch ==
  /\ replay # NoCall
  /\ ~replay.switched
  /\ replay' = [replay EXCEPT !.switched = TRUE]
  /\ other' = Snapshot
  /\ alive' = other.alive
  /\ m' = other.m /\ b' = other.b /\ k' = other.k
  /\ y0' = other.y0 /\ v0' = other.v0
  /\ state' = other.state
  /\ forcingName' = other.forcingName
  /\ forcingFn' = other.forcingFn
  /\ forcingParams' = other.forcingParams
  /\ lastOp' = other.lastOp
  /\ ret' = other.ret
  /\ dts' = other.dts
  /\ calls' = other.calls
  /\ held' = other.held
  /\ UNCHANGED <<defaults, rk, behind>>

\* the same call on the other instance
PairFollow ==
  /\ replay.switched
  /\ Make(replay)
  /\ replay' = NoCall
  /\ UNCHANGED <<rk, behind>>

PairNext == PairLead \/ PairSwitch \/ PairFollow

PairSpec == Init /\ [][PairNext]_vars

(***************************************************************************)
(* The free particle: new MassSpringSystem({m: 1, b: 0, k: 0, y0: 0,       *)
(* v0: 1}) and a sequence of step(dt) calls on it.                         *)
(***************************************************************************)
FreeInit ==
  /\ alive = TRUE
  /\ m = One /\ b = Zero /\ k = Zero
  /\ y0 = Zero /\ v0 = One
  /\ state = InitialState(Zero, One)
  /\ forcingName = "none"
  /\ forcingFn = PresetsGet("none")
  /\ forcingParams = EmptyParams
  /\ lastOp = Op("constructor", "")
  /\ ret = Undefined
  /\ dts = <<>>
  /\ calls = 0
  /\ held = {}
  /\ defaults = [name \in CatalogKeys |-> defaultParams(name)]
  /\ other = NoInstance
  /\ replay = NoCall
  /\ rk = NoRk4
  /\ behind = FALSE

FreeDtInputs == DtInputs \cup {One, Half, <<1, 100>>, IntNum(3), NegInf}

FreeNext ==
  \/ \E dt \in FreeDtInputs : Step(dt) /\ UNCHANGED scenarioVars
  \/ GetState /\ UNCHANGED scenarioVars

FreeSpec == FreeInit /\ [][FreeNext]_vars

(***************************************************************************)
(* The validation runs of tests/physics.test.js: an oscillator stepped by  *)
(* dt = 0.01 over ten periods, in rounded arithmetic.                      *)
(***************************************************************************)
\* the systems of the runs, as <<m, b, k, y0, v0>>: the undamped ones of the
\* accuracy and energy runs, and the damped one of the energy-loss run
LongRunSystems ==
  { <<One, Zero, One, One, Zero>>,
    <<One, Zero, IntNum(4), Half, One>>,
    <<One, <<3, 10>>, One, One, Zero>> }

\* dt = 0.01
Hundredth == <<1, 100>>

\* numPeriods * Math.ceil((2 * Math.PI / omega0) / dt), 10 * 629
LongRunSteps == 6290

\* system.step(dt) in the loop of a validation run
LongStep ==
  /\ alive
  /\ Len(dts) < LongRunSteps
  /\ calls' = calls + 1
  /\ state' = rk4StepRounded(state, This, Hundredth)
  /\ ret' = [y |-> state'.y, v |-> state'.v, t |-> state'.t]
  /\ lastOp' = Op("step", "")
  /\ dts' = Append(dts, Hundredth)
  /\ held' = {}
  /\ UNCHANGED <<alive, m, b, k, y0, v0, forcingName, forcingFn, forcingParams>>
  /\ UNCHANGED <<defaults, other>>

LongRunNext ==
  \/ \E c \in LongRunSystems :
        Construct(c[1], c[2], c[3], c[4], c[5]) /\ UNCHANGED scenarioVars
  \/ LongStep /\ UNCHANGED scenarioVars

LongRunSpec == Init /\ [][LongRunNext]_vars

(***************************************************************************)
(* One instance with its energy query.  The energy squares the position    *)
(* and the velocity, so the steps taken here are of size one and keep the  *)
(* squares in the range of the integers.                                   *)
(***************************************************************************)
EnergyInitialInputs == InitialInputs \cup {<<Zero, Zero>>}

EnergyDtInputs == {One, Zero, Neg(One), NaN, PosInf}

EnergyParameterUpdates ==
  { <<Undefined, One, Undefined>>,
    <<Undefined, Undefined, Zero>>,
    <<Half, Undefined, Undefined>>,
    <<Zero, One, Undefined>>,
    <<Undefined, Neg(One), Zero>> }

EnergyForcingInputs ==
  { <<"none", EmptyParams>>,
    <<"constant", [force |-> Two]>>,
    <<"cosine", EmptyParams>>,
    <<"step", EmptyParams>>,
    <<"unknown", EmptyParams>>,
    <<"__proto__", EmptyParams>> }

EnergyNext ==
  \/ \E cm \in {Undefined, Half}, ic \in EnergyInitialInputs :
        Construct(cm, Zero, Undefined, ic[1], ic[2]) /\ UNCHANGED scenarioVars
  \/ \E dt \in EnergyDtInputs : Step(dt) /\ UNCHANGED scenarioVars
  \/ \E p \in EnergyParameterUpdates : SetParameters(p[1], p[2], p[3]) /\ UNCHANGED scenarioVars
  \/ \E sel \in EnergyForcingInputs : SetForcing(sel[1], sel[2]) /\ UNCHANGED scenarioVars
  \/ GetState /\ UNCHANGED scenarioVars
  \/ GetParameters /\ UNCHANGED scenarioVars
  \/ GetForcing /\ UNCHANGED scenarioVars
  \/ GetSystemProperties /\ UNCHANGED scenarioVars
  \/ GetEnergy /\ UNCHANGED scenarioVars
  \/ Reset /\ UNCHANGED scenarioVars

EnergySpec == Init /\ [][EnergyNext]_vars

(***************************************************************************)
(* Two instances constructed alike and stepped alike, the forcing of one   *)
(* of them replaced by a preset of amplitude 0.                            *)
(***************************************************************************)
ZeroCalls ==
  { Call("constructor", <<Undefined, Zero, Undefined, Undefined, Undefined>>),
    Call("constructor", <<Half, Zero, Undefined, Zero, One>>),
    Call("step", <<Two>>),
    Call("step", <<Half>>),
    Call("step", <<Neg(Two)>>),
    Call("step", <<NaN>>),
    Call("step", <<PosInf>>) }

ZeroSelections ==
  {<<"constant", [force |-> Zero]>>}
    \cup {<<name, [amplitude |-> Zero]>> : name \in {"sine", "cosine", "step", "square", "impulse"}}

\* the call c made on the instance in focus
ZeroMake(c) ==
  \/ c.op = "constructor" /\ Construct(c.args[1], c.args[2], c.args[3], c.args[4], c.args[5])
  \/ c.op = "step" /\ Step(c.args[1])

\* a call on one instance
ZeroLead ==
  /\ replay = NoCall
  /\ \E c \in ZeroCalls : ZeroMake(c) /\ replay' = c
  /\ UNCHANGED <<rk, behind>>

\* the same call on the other instance
ZeroFollow ==
  /\ replay.switched
  /\ ZeroMake(replay)
  /\ replay' = NoCall
  /\ UNCHANGED <<rk, behind>>

\* one of the two instances, both still unforced, is given a forcing of amplitude 0
ZeroSelect ==
  /\ replay = NoCall
  /\ other.alive
  /\ forcingName = "none" /\ other.forcingName = "none"
  /\ \E sel \in ZeroSelections : SetForcing(sel[1], sel[2])
  /\ UNCHANGED scenarioVars

ZeroNext == ZeroLead \/ PairSwitch \/ ZeroFollow \/ ZeroSelect

ZeroSpec == Init /\ [][ZeroNext]_vars

(***************************************************************************)
(* The forcing catalog evaluated by a caller: a preset function called     *)
(* with a time and a parameter record, as presets[name](t, params), and    *)
(* the selection of an instance called with the parameters setForcing      *)
(* stored, as computeDerivatives calls it.                                 *)
(***************************************************************************)
TimeInputs ==
  { Neg(Two), Neg(One), <<-3, 4>>, <<-1, 4>>, Zero, <<1, 4>>, Half, <<3, 4>>, One,
    <<201, 200>>, <<3, 2>>, Two, NaN, PosInf, NegInf }

CatalogParamsInputs ==
  { EmptyParams,
    [amplitude |-> Two],
    [frequency |-> Two],
    [stepTime |-> Half],
    [impulseTime |-> Half, width |-> Half] }

\* overrides that supply neither a stepTime nor an impulseTime
SelectionInputs ==
  {"step", "square", "impulse"} \X {EmptyParams, [amplitude |-> Two]}

\* presets[name](t, params)
Evaluate(name, t, params) ==
  /\ ret' = [via |-> "presets", name |-> name, t |-> t, params |-> params,
             value |-> CallForcing(PresetsGet(name), t, params)]
  /\ lastOp' = Op("evaluate", "")
  /\ UNCHANGED <<alive, instanceVars, dts, calls, held, defaults, other>>

\* this.forcingFn(t, this.forcingParams)
EvaluateSelected(t) ==
  /\ alive
  /\ IsCallable(forcingFn)
  /\ ret' = [via |-> "setForcing", name |-> forcingName, t |-> t, params |-> forcingParams,
             value |-> CallForcing(forcingFn, t, forcingParams)]
  /\ lastOp' = Op("evaluate", "")
  /\ UNCHANGED <<alive, instanceVars, dts, calls, held, defaults, other>>

CatalogNext ==
  \/ Construct(Undefined, Zero, Undefined, Undefined, Undefined) /\ UNCHANGED scenarioVars
  \/ \E sel \in SelectionInputs : SetForcing(sel[1], sel[2]) /\ UNCHANGED scenarioVars
  \/ \E name \in CatalogKeys, t \in TimeInputs, params \in CatalogParamsInputs :
        ~alive /\ Evaluate(name, t, params) /\ UNCHANGED scenarioVars
  \/ \E t \in TimeInputs : EvaluateSelected(t) /\ UNCHANGED scenarioVars

CatalogSpec == Init /\ [][CatalogNext]_vars

(***************************************************************************)
(* step(dt) with the rk4Step call it makes taken statement by statement:   *)
(* the call, the four calls of derivativeFn, the return, and the           *)
(* assignment of the returned state to this.state.                         *)
(***************************************************************************)
Rk4DtInputs == {Two, Half, Neg(One), NaN}

Rk4ForcingInputs == {<<"constant", [force |-> Two]>>, <<"cosine", EmptyParams>>}

\* a slope that has not been taken yet
NoSlope == [dydt |-> Undefined, dvdt |-> Undefined]

\* the locals y, v, t of the call
Rk4Locals == [y |-> rk.y, v |-> rk.v, t |-> rk.t]

\* the instance, its state included, is left alone
Rk4Frame ==
  UNCHANGED <<alive, instanceVars, lastOp, ret, dts, calls, held, defaults, other,
              replay, behind>>

\* step(dt) calls rk4Step(this.state, derivativeFn, dt): const { y, v, t } = state
Rk4Call(dt) ==
  /\ alive
  /\ rk.pc = "idle"
  /\ calls < MaxCalls
  /\ Len(dts) < MaxSteps
  /\ rk' = [pc |-> "k1", state |-> state, dt |-> dt,
            y |-> state.y, v |-> state.v, t |-> state.t,
            k1 |-> NoSlope, k2 |-> NoSlope, k3 |-> NoSlope, k4 |-> NoSlope,
            log |-> <<>>, out |-> Undefined]
  /\ Rk4Frame

\* const k1 = derivativeFn({ y, v, t })
Rk4K1 ==
  /\ rk.pc = "k1"
  /\ LET arg == [y |-> rk.y, v |-> rk.v, t |-> rk.t]
     IN  rk' = [rk EXCEPT !.k1 = computeDerivatives(This, arg),
                          !.log = Append(@, arg), !.pc = "k2"]
  /\ Rk4Frame

\* const k2 = derivativeFn({...}) at the midpoint, using k1
Rk4K2 ==
  /\ rk.pc = "k2"
  /\ LET arg == rk4Midpoint(Rk4Locals, rk.k1, rk.dt)
     IN  rk' = [rk EXCEPT !.k2 = computeDerivatives(This, arg),
                          !.log = Append(@, arg), !.pc = "k3"]
  /\ Rk4Frame

\* const k3 = derivativeFn({...}) at the midpoint, using k2
Rk4K3 ==
  /\ rk.pc = "k3"
  /\ LET arg == rk4Midpoint(Rk4Locals, rk.k2, rk.dt)
     IN  rk' = [rk EXCEPT !.k3 = computeDerivatives(This, arg),
                          !.log = Append(@, arg), !.pc = "k4"]
  /\ Rk4Frame

\* const k4 = derivativeFn({...}) at the end of the interval, using k3
Rk4K4 ==
  /\ rk.pc = "k4"
  /\ LET arg == rk4Endpoint(Rk4Locals, rk.k3, rk.dt)
     IN  rk' = [rk EXCEPT !.k4 = computeDerivatives(This, arg),
                          !.log = Append(@, arg), !.pc = "average"]
  /\ Rk4Frame

\* the weighted averages and the returned object
Rk4Return ==
  /\ rk.pc = "average"
  /\ LET dydt == rk4Average(rk.k1.dydt, rk.k2.dydt, rk.k3.dydt, rk.k4.dydt)
         dvdt == rk4Average(rk.k1.dvdt, rk.k2.dvdt, rk.k3.dvdt, rk.k4.dvdt)
     IN  rk' = [rk EXCEPT !.out = rk4Advance(Rk4Locals, dydt, dvdt, rk.dt),
                          !.pc = "returned"]
  /\ Rk4Frame

\* this.state = <the value rk4Step returned>; return { ...this.state }
Rk4Assign ==
  /\ rk.pc = "returned"
  /\ calls' = calls + 1
  /\ state' = rk.out
  /\ ret' = [y |-> state'.y, v |-> state'.v, t |-> state'.t]
  /\ lastOp' = Op("step", "")
  /\ dts' = Append(dts, rk.dt)
  /\ held' = {}
  /\ rk' = NoRk4
  /\ UNCHANGED <<alive, m, b, k, y0, v0, forcingName, forcingFn, forcingParams>>
  /\ UNCHANGED <<defaults, other, replay, behind>>

Rk4Next ==
  \/ \E cm \in {Undefined, Half}, ic \in InitialInputs :
        Construct(cm, Zero, Undefined, ic[1], ic[2]) /\ UNCHANGED scenarioVars
  \/ \E sel \in Rk4ForcingInputs :
        rk.pc = "idle" /\ SetForcing(sel[1], sel[2]) /\ UNCHANGED scenarioVars
  \/ \E dt \in Rk4DtInputs : Rk4Call(dt)
  \/ Rk4K1
  \/ Rk4K2
  \/ Rk4K3
  \/ Rk4K4
  \/ Rk4Return
  \/ Rk4Assign

Rk4Spec == Init /\ [][Rk4Next]_vars

(***************************************************************************)
(* One instance driven by the impulse preset, with steps forwards and      *)
(* backwards in time.  `behind` records that the impulse window has been   *)
(* behind the clock since the selection was made or the instance reset.    *)
(***************************************************************************)
ImpulseDtInputs == {Two, Neg(Two), Zero, NaN, PosInf}

ImpulseForcingInputs ==
  { <<"impulse", EmptyParams>>,
    <<"impulse", [impulseTime |-> Neg(One), width |-> One]>>,
    <<"none", EmptyParams>>,
    <<"unknown", EmptyParams>> }

\* impulseTime + width of the stored parameters
WindowEnd(params) ==
  Add(Field(params, "impulseTime", Zero), Field(params, "width", <<1, 100>>))

ImpulseNext ==
  \/ \E cm \in {Undefined, Half} :
        /\ Construct(cm, Zero, Undefined, Undefined, Undefined)
        /\ behind' = FALSE
        /\ UNCHANGED <<replay, rk>>
  \/ \E dt \in ImpulseDtInputs :
        /\ Step(dt)
        /\ behind' = (behind \/ (forcingFn = "impulse"
                                  /\ Ge(state'.t, WindowEnd(forcingParams))))
        /\ UNCHANGED <<replay, rk>>
  \/ \E sel \in ImpulseForcingInputs :
        /\ SetForcing(sel[1], sel[2])
        /\ behind' = IF lastOp'.threw # "" THEN behind
                      ELSE forcingFn' = "impulse" /\ Ge(state.t, WindowEnd(forcingParams'))
        /\ UNCHANGED <<replay, rk>>
  \/ Reset /\ behind' = FALSE /\ UNCHANGED <<replay, rk>>
  \/ GetState /\ UNCHANGED scenarioVars

ImpulseSpec == Init /\ [][ImpulseNext]_vars

(***************************************************************************)
(* Properties                                                              *)
(***************************************************************************)
\* the messages of the quantities that are out of range among the values given
\* (an omitted field, Undefined, gives none)
Offending(xm, xb, xk) ==
  {msg \in {MassMessage, DampingMessage, SpringMessage} :
     \/ msg = MassMessage /\ xm # Undefined /\ Le(xm, Zero)
     \/ msg = DampingMessage /\ xb # Undefined /\ Lt(xb, Zero)
     \/ msg = SpringMessage /\ xk # Undefined /\ Lt(xk, Zero)}

\* the value a constructor field takes: the one supplied, or the documented default
Supplied(x, dflt) == IF x = Undefined THEN dflt ELSE x

\* C1: a setParameters call that throws leaves m, b and k as they were before the
\* call, whichever fields of the batch were valid and wherever the invalid one sits.
C1_SetParametersAtomic ==
  [][(lastOp'.op = "setParameters" /\ lastOp'.threw # "")
       => (m' = m /\ b' = b /\ k' = k)]_vars

\* C2: in every state of a constructed instance the stored parameters satisfy
\* mass > 0, damping >= 0 and springConstant >= 0.
C2_ParametersInRange ==
  alive => (Gt(m, Zero) /\ Ge(b, Zero) /\ Ge(k, Zero))

\* C3: the constructor and setParameters throw exactly when a given value has
\* mass <= 0, damping < 0 or springConstant < 0; the message names a quantity that
\* is out of range; a rejected construction yields no instance.
C3_RejectsExactlyOutOfRange ==
  [][/\ lastOp'.op = "constructor" =>
          \A cm \in CtorMassInputs, cb \in CtorDampingInputs, ck \in CtorSpringInputs,
             ic \in InitialInputs :
            Construct(cm, cb, ck, ic[1], ic[2]) =>
              LET off == Offending(cm, cb, ck)
              IN  /\ (lastOp'.threw = "") <=> (off = {})
                  /\ off # {} => (lastOp'.threw \in off /\ ~alive')
                  /\ off = {} => alive'
     /\ lastOp'.op = "setParameters" =>
          \A p \in ParameterUpdates :
            SetParameters(p[1], p[2], p[3]) =>
              LET off == Offending(p[1], p[2], p[3])
              IN  /\ (lastOp'.threw = "") <=> (off = {})
                  /\ off # {} => lastOp'.threw \in off]_vars

\* C3 witness: a construction with mass 0 or below was rejected with the mass
\* message and left no instance.
C3_Witness ==
  lastOp.op = "constructor" /\ lastOp.threw = MassMessage /\ ~alive

\* C4: right after a successful construction getState() is {y0, v0, 0},
\* getParameters() is {m, b, k} as supplied and getForcing() is {none, {}}.
C4_AfterConstruction ==
  [][lastOp'.op = "constructor" =>
       \A cm \in CtorMassInputs, cb \in CtorDampingInputs, ck \in CtorSpringInputs,
          ic \in InitialInputs :
         (Construct(cm, cb, ck, ic[1], ic[2]) /\ alive') =>
           /\ getState' = [y |-> Supplied(ic[1], One), v |-> Supplied(ic[2], Zero),
                           t |-> Zero]
           /\ getParameters' = [m |-> Supplied(cm, One), b |-> Supplied(cb, <<1, 10>>),
                                k |-> Supplied(ck, One)]
           /\ getForcing' = [name |-> "none", params |-> EmptyParams]]_vars

\* C4 witness: an instance constructed with a given position and velocity.
C4_Witness ==
  lastOp.op = "constructor" /\ alive /\ state.y = Zero /\ state.v = One

\* whether every step since construction or the last reset had the same dt
UniformSteps(ds) == \A i \in 1..Len(ds) : ds[i] = ds[1]

\* whether no step since construction or the last reset had a negative or NaN dt
ForwardSteps(ds) == \A i \in 1..Len(ds) : Ge(ds[i], Zero)

\* C5: every step(dt) changes time by exactly dt, reset sets it to 0, no other
\* operation changes it; so after n steps of size dt since construction or the
\* last reset, t = n*dt.
C5_TimeAdvancesByDt ==
  [][/\ lastOp'.op = "step" =>
          \A dt \in DtInputs : Step(dt) => state'.t = Add(state.t, dt)
     /\ lastOp'.op = "reset" => state'.t = Zero
     /\ (alive /\ lastOp'.op \notin {"step", "reset"}) => state'.t = state.t
     /\ (Len(dts') > 0 /\ UniformSteps(dts')) =>
          state'.t = Mul(IntNum(Len(dts')), dts'[1])]_vars

\* C6 as stated: with no reset, time never decreases from one operation to the
\* next, for every dt a caller may pass to step.
C6_TimeNeverDecreases ==
  [][(alive /\ lastOp'.op # "reset") => ~Lt(state'.t, state.t)]_vars

\* C6 amended: with no reset and every step's dt >= 0, the time after an
\* operation is at least the time before it.
C6_TimeNeverDecreasesForward ==
  [][(alive /\ lastOp'.op # "reset" /\ ForwardSteps(dts')) => Le(state.t, state'.t)]_vars

\* C6 witness: two steps with positive dt have advanced the time.
C6_Witness ==
  /\ lastOp = Op("step", "")
  /\ Len(dts) = 2
  /\ ForwardSteps(dts)
  /\ state.t = IntNum(4)

\* C7: reset() yields {y0, v0, 0} with y0, v0 the values given at construction,
\* which never change afterwards; a reset right after a reset changes nothing.
C7_ResetRestoresInitialConditions ==
  [][/\ (lastOp'.op = "constructor" /\ alive') =>
          \A cm \in CtorMassInputs, cb \in CtorDampingInputs, ck \in CtorSpringInputs,
             ic \in InitialInputs :
            Construct(cm, cb, ck, ic[1], ic[2]) =>
              (y0' = Supplied(ic[1], One) /\ v0' = Supplied(ic[2], Zero))
     /\ alive => (y0' = y0 /\ v0' = v0)
     /\ lastOp'.op = "reset" => getState' = [y |-> y0, v |-> v0, t |-> Zero]
     /\ (lastOp.op = "reset" /\ lastOp'.op = "reset") => instanceVars' = instanceVars]_vars

\* C7 witness: a reset after a successful step brought the given initial
\* conditions back.
C7_Witness ==
  /\ lastOp.op = "reset"
  /\ calls >= 2
  /\ y0 = Zero /\ v0 = One
  /\ state = [y |-> Zero, v |-> One, t |-> Zero]

\* C8: reset() leaves the parameters and the forcing selection as they were.
C8_ResetKeepsParametersAndForcing ==
  [][lastOp'.op = "reset" =>
       /\ getParameters' = getParameters
       /\ getForcing' = getForcing
       /\ forcingFn' = forcingFn]_vars

\* C8 witness: after a reset the instance still has changed parameters and a
\* forcing other than the initial one.
C8_Witness ==
  /\ lastOp.op = "reset"
  /\ m = Half
  /\ forcingName = "step"
  /\ forcingParams = [amplitude |-> Two, stepTime |-> One, force |-> Two]

\* C9: a setForcing that throws leaves the forcing selection (name, function and
\* parameters, hence the force later steps use), the state and the parameters
\* as they were.
C9_FailedSetForcingChangesNothing ==
  [][(lastOp'.op = "setForcing" /\ lastOp'.threw # "") =>
       /\ getForcing' = getForcing
       /\ This' = This
       /\ getState' = getState
       /\ getParameters' = getParameters]_vars

\* C9 witness: setForcing('unknown') threw while a sine forcing was selected.
C9_Witness ==
  /\ lastOp = Op("setForcing", UnknownForcingMessage("unknown"))
  /\ forcingName = "sine"
  /\ forcingFn = "sine"

\* C10: the selected forcing is always one of the seven catalog functions and no
\* failure of the selection is deferred to step.
C10_SelectionAlwaysInCatalog ==
  alive =>
    /\ forcingName \in CatalogKeys
    /\ forcingFn \in CatalogKeys
    /\ getForcingFunction(forcingName).threw = ""
    /\ lastOp.op = "step" => lastOp.threw = ""


\* C11: after a successful setForcing(name, p), getForcing() is {name, params} where
\* params has the keys of the preset's defaults and of p, each key of p with p's
\* value and every other key with the default's; nothing of the selection before
\* the call remains.
C11_SetForcingMergesDefaults ==
  [][(lastOp'.op = "setForcing" /\ lastOp'.threw = "") =>
       \A sel \in ForcingInputs :
         SetForcing(sel[1], sel[2]) =>
           /\ getForcing'.name = sel[1]
           /\ DOMAIN getForcing'.params =
                (DOMAIN defaultParams(sel[1])) \cup (DOMAIN sel[2])
           /\ \A key \in DOMAIN getForcing'.params :
                getForcing'.params[key] =
                  IF key \in DOMAIN sel[2] THEN sel[2][key]
                  ELSE defaultParams(sel[1])[key]]_vars

\* C11 witness: setForcing('step', {amplitude: 2, force: 2}) stored the caller's
\* amplitude, the default stepTime and the extra key.
C11_Witness ==
  /\ lastOp = Op("setForcing", "")
  /\ getForcing = [name |-> "step",
                   params |-> [amplitude |-> Two, stepTime |-> One, force |-> Two]]


\* the record the documentation describes: the caller's value for every field
\* the caller gave a value for, the preset's default for every other field
DocumentedParams(name, params) ==
  [key \in (DOMAIN defaultParams(name)) \cup (DOMAIN params) |->
     IF key \in DOMAIN params /\ params[key] # Undefined THEN params[key]
     ELSE IF key \in DOMAIN defaultParams(name) THEN defaultParams(name)[key]
     ELSE Undefined]

\* C12: whatever override record setForcing was given, every key of the selected
\* preset's defaults has a defined value in getForcing().params, and the force
\* at the current time is the one computed with the documented default for every
\* field the caller gave no value for.
C12_ResolvedParamsComplete ==
  alive =>
    /\ \A key \in DOMAIN defaultParams(forcingName) :
         key \in DOMAIN getForcing.params /\ getForcing.params[key] # Undefined
    /\ CallForcing(forcingFn, state.t, forcingParams) =
         CallForcing(forcingFn, state.t, DocumentedParams(forcingName, forcingParams))


\* C14: a setParameters call that returns sets every field it was given to the
\* given value and leaves every omitted field among m, b, k at its prior value;
\* setParameters({}) changes none of them.
C14_SetParametersPartialUpdate ==
  [][(lastOp'.op = "setParameters" /\ lastOp'.threw = "") =>
       \A p \in ParameterUpdates :
         SetParameters(p[1], p[2], p[3]) =>
           getParameters' = [m |-> IF p[1] = Undefined THEN getParameters.m ELSE p[1],
                             b |-> IF p[2] = Undefined THEN getParameters.b ELSE p[2],
                             k |-> IF p[3] = Undefined THEN getParameters.k ELSE p[3]]]_vars

\* C14 witness: setParameters({b: 1}) on an instance built with the default mass
\* and spring constant changed the damping alone.
C14_Witness ==
  /\ lastOp = Op("setParameters", "")
  /\ getParameters = [m |-> One, b |-> One, k |-> One]


\* C15: whenever the damping is 0, the mass is positive and the spring constant
\* is zero or positive, getSystemProperties() returns without throwing, with
\* zeta = 0, regime = 'underdamped' and Q = +Infinity.
C15_UndampedProperties ==
  (lastOp.op = "getSystemProperties" /\ b = Zero /\ Gt(m, Zero) /\ Ge(k, Zero)) =>
    /\ lastOp.threw = ""
    /\ ret.zeta = Zero
    /\ ret.regime = "underdamped"
    /\ ret.Q = PosInf


\* b*b - 4*m*k of the current parameters
Discriminant == Sub(Mul(b, b), Mul(IntNum(4), Mul(m, k)))

\* C16: getSystemProperties() returns exactly one of the three regimes, decided
\* by the discriminant d of the parameters current at the call: 'critical' when
\* |d| is below the tolerance 1e-10, 'overdamped' when d is above it,
\* 'underdamped' when d is below minus the tolerance; and omegaD and fD are zero
\* in every regime but the underdamped one.
C16_RegimeClassification ==
  lastOp.op = "getSystemProperties" =>
    /\ lastOp.threw = ""
    /\ ret.regime \in {"critical", "overdamped", "underdamped"}
    /\ LtTolerance(Abs(Discriminant)) => ret.regime = "critical"
    /\ (Gt(Discriminant, Zero) /\ ~LtTolerance(Abs(Discriminant))) =>
         ret.regime = "overdamped"
    /\ (Lt(Discriminant, Zero) /\ ~LtTolerance(Abs(Discriminant))) =>
         ret.regime = "underdamped"
    /\ ret.regime # "underdamped" => (ret.omegaD = Zero /\ ret.fD = Zero)

\* C16 witness: after setParameters({b: 2}) on m = k = 1 the regime returned is
\* the critical one, with a discriminant of 4 - 4 = 0.
C16_Witness ==
  /\ lastOp.op = "getSystemProperties"
  /\ getParameters = [m |-> One, b |-> Two, k |-> One]
  /\ ret.regime = "critical"
  /\ ret.omegaD = Zero


\* C19: with valid parameters, whatever forcing was selected and whatever steps
\* came before, step(dt) throws nothing and returns the snapshot of the new
\* state, for every dt (non-finite values included).
C19_StepNeverThrows ==
  (lastOp.op = "step" /\ Gt(m, Zero) /\ Ge(b, Zero) /\ Ge(k, Zero)) =>
    /\ lastOp.threw = ""
    /\ ret = getState


\* a step of the two-instance program other than the move of the focus
CallStep == replay'.switched => replay.switched

\* C13: a caller's write to a value returned by step, getState, getParameters or
\* getForcing (its nested params included), or to the params object it passed to
\* setForcing, changes nothing of the instance: its state, parameters and forcing
\* selection, from which every later result is computed, stay as they were.
C13_ReturnedValuesAreCopies ==
  [][(CallStep /\ lastOp'.op = "mutate") =>
       /\ instanceVars' = instanceVars
       /\ getState' = getState
       /\ getParameters' = getParameters
       /\ getForcing' = getForcing]_vars

\* C13 witness: the caller has overwritten the record getForcing() returned while
\* the instance still has the sine selection it was given.
C13_Witness ==
  /\ lastOp.op = "mutate"
  /\ ret = [name |-> "tampered",
            params |-> [amplitude |-> One, frequency |-> One, force |-> One,
                        tampered |-> One]]
  /\ getForcing = [name |-> "sine",
                   params |-> [amplitude |-> Two, frequency |-> One, force |-> Two]]

C18_InstancesIndependent ==
  [][/\ defaults' = defaults
     /\ defaults' = [name \in CatalogKeys |-> defaultParams(name)]
     /\ CallStep => other' = other]_vars

\* C18 witness: one instance has been given a sine forcing with overrides while
\* the other, constructed alike, still has its initial selection.
C18_Witness ==
  /\ replay # NoCall
  /\ forcingName = "sine"
  /\ forcingParams = [amplitude |-> Two, frequency |-> One, force |-> Two]
  /\ other.alive
  /\ other.forcingName = "none"
  /\ other.forcingParams = EmptyParams


\* the sum of the step sizes
RECURSIVE SumOf(_)
SumOf(ds) == IF ds = <<>> THEN Zero ELSE Add(ds[1], SumOf(Tail(ds)))

\* whether every step had a finite size
FiniteSteps(ds) == \A i \in 1..Len(ds) : IsFinite(ds[i])

\* C20 as stated: on the free particle (m=1, b=0, k=0, y0=0, v0=1, no forcing),
\* after every step of any sequence of step(dt) calls the velocity is 1 and the
\* position equals the accumulated time.
C20_FreeParticle ==
  Len(dts) > 0 => (state.v = One /\ state.y = state.t /\ state.t = SumOf(dts))

\* C20 amended: the same after every step of a sequence whose dt are all finite
\* numbers.
C20_FreeParticleFiniteSteps ==
  (Len(dts) > 0 /\ FiniteSteps(dts)) =>
    (state.v = One /\ state.y = state.t /\ state.t = SumOf(dts))

\* C20 witness: after step(0.5) and step(0.01) the particle is at 0.51 with
\* velocity 1.
C20_Witness ==
  /\ lastOp = Op("step", "")
  /\ dts = <<Half, <<1, 100>>>>
  /\ state = [y |-> <<51, 100>>, v |-> One, t |-> <<51, 100>>]

\* C26: in every reachable state, whatever the damping and the forcing, getEnergy()
\* returns 0.5*k*y^2 + 0.5*m*v^2 of the current state and parameters, does not
\* throw, and changes neither the state, the parameters nor the forcing.
C26_EnergyFormula ==
  [][lastOp'.op = "getEnergy" =>
       /\ lastOp'.threw = ""
       /\ ret' = Add(Mul(Mul(Half, k), Mul(state.y, state.y)),
                     Mul(Mul(Half, m), Mul(state.v, state.v)))
       /\ UNCHANGED <<alive, instanceVars>>]_vars

\* getEnergy() returned a positive energy with both terms present, on a forced
\* system that has moved
C26_Witness ==
  /\ lastOp.op = "getEnergy"
  /\ forcingName # "none"
  /\ Len(dts) > 0
  /\ state.y # Zero /\ state.v # Zero /\ IsFinite(state.y) /\ IsFinite(state.v)
  /\ Gt(ret, Zero)

\* C28: y, v and t are changed by step and reset only: setParameters and
\* setForcing, whether they return or throw, and every query leave the state
\* record exactly as it was, so a change of parameters or forcing made in the
\* middle of a simulation continues from the same state and time.
C28_OnlyStepAndResetMove ==
  [][lastOp'.op \in {"setParameters", "setForcing", "getState", "getParameters",
                     "getForcing", "getSystemProperties", "getEnergy"}
       => state' = state]_vars

\* the parameters were changed after a step that moved the system, and the state
\* is the one that step returned
C28_Witness ==
  /\ lastOp.op = "setParameters"
  /\ lastOp.threw = ""
  /\ Len(dts) > 0
  /\ state.t = One
  /\ state # InitialState(y0, v0)
  /\ IsFinite(state.y) /\ IsFinite(state.v)

\* the dt of the step that has just returned
LastDt == dts[Len(dts)]

\* the forcing of the instance is 0 at the three times a step of size dt from
\* time t evaluates it at: t, t + dt/2, t + dt
ForceFree(t, dt) ==
  \A time \in {t, Add(t, Mul(Half, dt)), Add(t, dt)} :
     CallForcing(forcingFn, time, forcingParams) = Zero

\* the step started at rest in the equilibrium position, with valid parameters and
\* a forcing that is 0 at every stage time
AtRest ==
  /\ lastOp'.op = "step" /\ lastOp'.threw = ""
  /\ state.y = Zero /\ state.v = Zero
  /\ Gt(m, Zero) /\ Ge(b, Zero) /\ Ge(k, Zero)
  /\ ForceFree(state.t, LastDt')

Unforced == [This EXCEPT !.forcingFn = "none"]

\* setForcing leaves the clock alone; reset puts it back to 0 and keeps the
\* selection; a step from a finite state that evaluates a non-zero impulse inside
\* its window differs from the unforced step
ClockAndSelection ==
  /\ lastOp'.op = "setForcing" => state'.t = state.t
  /\ lastOp'.op = "reset" =>
       /\ state'.t = Zero
       /\ UNCHANGED <<forcingName, forcingFn, forcingParams>>
  /\ (/\ lastOp'.op = "step"
      /\ forcingFn = "impulse"
      /\ IsFinite(state.y) /\ IsFinite(state.v)
      /\ ~ForceFree(state.t, LastDt'))
       => state' # rk4Step(state, Unforced, LastDt')

\* C30: the forcing is evaluated at the accumulated time of the instance, which
\* setForcing does not restart: once the impulse preset is the selection at a time
\* t >= impulseTime + width, every later step with dt > 0 sees force 0 at all its
\* stages until reset(); after reset() the retained selection is evaluated from
\* t = 0 again.
C30_ImpulseSpentUntilReset ==
  [][/\ ClockAndSelection
     /\ (lastOp'.op = "step" /\ behind /\ Gt(LastDt', Zero))
          => ForceFree(state.t, LastDt')]_vars

\* C30, for the steps that start behind the window: a step with dt > 0 that starts
\* at a time t >= impulseTime + width, the impulse preset being the selection,
\* sees force 0 at all its stages and returns what the unforced step returns;
\* setForcing does not restart the clock, and reset() does, keeping the selection.
C30_ImpulseSpentBehindWindow ==
  [][/\ ClockAndSelection
     /\ (/\ lastOp'.op = "step"
         /\ forcingFn = "impulse"
         /\ Ge(state.t, WindowEnd(forcingParams))
         /\ Gt(LastDt', Zero))
          => /\ ForceFree(state.t, LastDt')
             /\ state' = rk4Step(state, Unforced, LastDt')]_vars

\* the impulse preset was selected after its window, and the step that followed
\* returned what the unforced system returns
C30_Witness ==
  /\ lastOp.op = "step"
  /\ forcingFn = "impulse"
  /\ behind
  /\ dts = <<Two, Two>>
  /\ state = rk4Step(rk4Step(InitialState(y0, v0), Unforced, Two), Unforced, Two)

\* the slope derivativeFn returns for the i-th argument it was called with
SlopeAt(i) == computeDerivatives(This, rk.log[i])

\* the point (y + h*slope.dy, v + h*slope.dv, t + h) of the claim
StagePoint(s, slope, h) ==
  [y |-> Add(s.y, Mul(h, slope.dydt)),
   v |-> Add(s.v, Mul(h, slope.dvdt)),
   t |-> Add(s.t, h)]

\* (k1 + 2*k2 + 2*k3 + k4) / 6 of one component
Combined(a1, a2, a3, a4) ==
  Div(Add(Add(Add(a1, Mul(Two, a2)), Mul(Two, a3)), a4), IntNum(6))

\* C27: when rk4Step returns it has called the derivative function exactly four
\* times, in the order k1 at (y, v, t), k2 at (y + dt/2*k1.dy, v + dt/2*k1.dv,
\* t + dt/2), k3 likewise with k2, k4 at (y + dt*k3.dy, v + dt*k3.dv, t + dt); it
\* returns (y + dt*c.dy, v + dt*c.dv, t + dt) with c = (k1 + 2*k2 + 2*k3 + k4)/6;
\* the state object it was given is as it was, and the value returned is the one
\* the arguments alone determine.
C27_Rk4Stages ==
  rk.pc = "returned" =>
    LET s == rk.state
        half == Div(rk.dt, Two)
    IN  /\ Len(rk.log) = 4
        /\ rk.log[1] = [y |-> s.y, v |-> s.v, t |-> s.t]
        /\ rk.log[2] = StagePoint(s, SlopeAt(1), half)
        /\ rk.log[3] = StagePoint(s, SlopeAt(2), half)
        /\ rk.log[4] = StagePoint(s, SlopeAt(3), rk.dt)
        /\ rk.out = [y |-> Add(s.y, Mul(rk.dt, Combined(SlopeAt(1).dydt, SlopeAt(2).dydt,
                                                        SlopeAt(3).dydt, SlopeAt(4).dydt))),
                     v |-> Add(s.v, Mul(rk.dt, Combined(SlopeAt(1).dvdt, SlopeAt(2).dvdt,
                                                        SlopeAt(3).dvdt, SlopeAt(4).dvdt))),
                     t |-> Add(s.t, rk.dt)]
        /\ state = s
        /\ rk.out = rk4Step(s, This, rk.dt)

\* a second rk4Step call on the instance has returned, for a forced system and a
\* finite step, with four different arguments passed to the derivative function
C27_Witness ==
  /\ rk.pc = "returned"
  /\ Len(dts) = 1
  /\ forcingName = "cosine"
  /\ IsFinite(rk.out.y) /\ IsFinite(rk.out.v)
  /\ Cardinality({rk.log[i] : i \in 1..Len(rk.log)}) = 4

\* the preset called by the last evaluation
Evaluated(preset) == lastOp.op = "evaluate" /\ ret.name = preset

\* C22: the square preset returns +amplitude in the first half of every period
\* and -amplitude in the second half, period = 1/frequency, for every real t,
\* negative t included; the result is always exactly +amplitude or -amplitude.
C22_SquareHalves ==
  Evaluated("square") =>
    LET amplitude == Field(ret.params, "amplitude", One)
        frequency == Field(ret.params, "frequency", One)
        period == Div(One, frequency)
    IN  /\ ret.value \in {amplitude, Neg(amplitude)}
        /\ IsFinite(ret.t) =>
             ret.value = IF Lt(Frac(Div(ret.t, period)), Half) THEN amplitude
                         ELSE Neg(amplitude)

\* C23: step returns amplitude when t >= stepTime and 0 otherwise; impulse returns
\* amplitude/width when impulseTime <= t < impulseTime + width and 0 otherwise;
\* without a stepTime or impulseTime from the caller the value used is the
\* documented default 1.0, whether the preset was selected through setForcing or
\* its function is called with an empty parameter record.
C23_StepAndImpulseWindows ==
  /\ Evaluated("step") =>
       LET amplitude == Field(ret.params, "amplitude", One)
           stepTime == Field(ret.params, "stepTime", One)
       IN  ret.value = IF Ge(ret.t, stepTime) THEN amplitude ELSE Zero
  /\ Evaluated("impulse") =>
       LET amplitude == Field(ret.params, "amplitude", One)
           impulseTime == Field(ret.params, "impulseTime", One)
           width == Field(ret.params, "width", <<1, 100>>)
       IN  ret.value = IF Ge(ret.t, impulseTime) /\ Lt(ret.t, Add(impulseTime, width))
                         THEN Div(amplitude, width)
                         ELSE Zero

\* C21: a forcing of amplitude 0 is no forcing: two instances with the same
\* parameters and initial conditions, one unforced and one with the sine, cosine,
\* step, square or impulse preset of amplitude 0 or the constant preset of force
\* 0, have the same (y, v, t) after every step of a common sequence of steps.
C21_ZeroAmplitudeIsNoForcing ==
  (replay = NoCall /\ alive /\ other.alive) => state = other.state

\* both instances have taken the same two steps, one of them unforced and one
\* with a preset of amplitude 0, and have moved
C21_Witness ==
  /\ replay = NoCall
  /\ alive /\ other.alive
  /\ {forcingName, other.forcingName} \in {{"none", "sine"}, {"none", "impulse"}}
  /\ Len(dts) = 2 /\ Len(other.dts) = 2
  /\ IsFinite(state.y) /\ IsFinite(state.v)
  /\ Gt(state.t, One)
  /\ state.y # y0
  /\ state = other.state

(***************************************************************************)
(* C24: for m = 1, b = 0, k = 1, y0 = 1, v0 = 0 and no forcing, stepped    *)
(* with dt = 0.01 over ten periods, the position after every step is       *)
(* within 0.001 of cos(omega0 * t), omega0 = sqrt(k / m).                  *)
(***************************************************************************)
InValidationRun ==
  /\ alive
  /\ m = One /\ b = Zero /\ k = One /\ y0 = One /\ v0 = Zero
  /\ forcingName = "none"
  /\ \A i \in 1..Len(dts) : dts[i] = Hundredth

omega0 == Sqrt(Div(k, m))

C24_ShmAccuracy ==
  (InValidationRun /\ Len(dts) <= LongRunSteps) =>
    Lt(Abs(Sub(state.y, Cos(RoundedMul(omega0, state.t)))), <<1, 1000>>)

\* the end of the first period
C24_Witness ==
  /\ InValidationRun
  /\ Len(dts) = LongRunSteps \div 10
  /\ lastOp.op = "step"
  /\ state.y # Cos(RoundedMul(omega0, state.t))

(***************************************************************************)
(* C25: whenever the damping is 0 and the forcing is 'none', getEnergy() is *)
(* conserved across steps up to the error of the integration: stepped with *)
(* dt = 0.01, the energy stays within a relative 0.0001 of the initial     *)
(* energy after every step up to t = 10 (for m = 1, k = 1, y0 = 1, v0 = 0  *)
(* in particular).                                                         *)
(***************************************************************************)
EnergyRunSteps == 1000

InEnergyRun ==
  /\ alive
  /\ b = Zero
  /\ forcingName = "none"
  /\ Len(dts) <= EnergyRunSteps
  /\ \A i \in 1..Len(dts) : dts[i] = Hundredth

initialEnergy == energyRounded(This, InitialState(y0, v0))

energyError == Div(Abs(Sub(energyRounded(This, state), initialEnergy)), initialEnergy)

C25_EnergyWithinTolerance == InEnergyRun => Lt(energyError, <<1, 10000>>)

C25_Witness ==
  /\ InEnergyRun
  /\ m = One /\ k = One /\ y0 = One /\ v0 = Zero
  /\ Len(dts) = EnergyRunSteps
  /\ lastOp.op = "step"
  /\ energyRounded(This, state) # initialEnergy

====
